---- MODULE Spec2Model ----
(***************************************************************************)
(* A model of torch/distributed/tensor/parallel/api.py: parallelize_module *)
(* applies a plan (one ParallelStyle, or a dict from dotted module paths   *)
(* to ParallelStyles) to a tree of nn.Modules on a device mesh.            *)
(*                                                                         *)
(* A Python str is a sequence of one-character strings, so that            *)
(* str.split(".") and ".".join are computed, not assumed.  Modules are     *)
(* objects: a module is an index into heap, a sequence of records          *)
(*   kids    : the ordered dict _modules, a sequence of [name, id]         *)
(*   applied : how many times a ParallelStyle was applied to this object   *)
(*   faulty  : the names whose lookup raises something other than          *)
(*             AttributeError.                                             *)
(***************************************************************************)
EXTENDS Integers, Sequences, FiniteSets, TLC

VARIABLES
    heap,      \* the module objects; the caller's root module is heap[1]
    tracker,   \* random._rng_tracker
    installs,  \* how many TensorParallelRNGTrackers were constructed
    mesh,      \* the device mesh of the current call
    pc,        \* "idle", "loop" (inside the loop of line 90), "returned", "raised"
    plan,      \* the plan of the current call; a dict's items as iterated so far
    ncalls,    \* top-level calls made
    nentries,  \* plan items processed
    err,       \* the exception that reached the caller, or "none"
    ret,       \* the module returned to the caller, or 0
    log,       \* per step of the current call, its events: log[1] is the entry
               \* into the call, log[i + 1] the i-th plan item
    pre,       \* the heap before the last step
    start      \* the heap, tracker and installs when the current call began

vars == <<heap, tracker, installs, mesh, pc, plan, ncalls, nentries,
          err, ret, log, pre, start>>

\* ---------------------------------------------------------------- bounds
MaxKeyLen == 3
MaxEntries == 2
MaxCalls == 2

\* --------------------------------------------------------------- strings
DOT == "."
STAR == <<"*">>
EMPTY == <<>>
NA == <<"a">>
NB == <<"b">>
Names == {NA, NB}
Segments == Names \cup {STAR}

\* str.split("."): the pieces between the dots; never an empty list.
RECURSIVE split(_)
split(str) ==
    IF \E i \in 1..Len(str) : str[i] = DOT
    THEN LET i == CHOOSE k \in 1..Len(str) :
                     str[k] = DOT /\ \A j \in 1..(k - 1) : str[j] # DOT
         IN  <<SubSeq(str, 1, i - 1)>> \o split(SubSeq(str, i + 1, Len(str)))
    ELSE <<str>>

\* ".".join(list)
RECURSIVE join(_)
join(parts) ==
    IF parts = <<>> THEN EMPTY
    ELSE IF Len(parts) = 1 THEN parts[1]
    ELSE parts[1] \o <<DOT>> \o join(Tail(parts))

RECURSIVE SeqsOfLen(_, _)
SeqsOfLen(S, n) ==
    IF n = 0 THEN {<<>>}
    ELSE {Append(q, x) : q \in SeqsOfLen(S, n - 1), x \in S}

\* The dotted paths of 1..n segments, and the empty string.
Paths(n) == {join(q) : q \in UNION {SeqsOfLen(Segments, k) : k \in 1..n}}
               \cup {EMPTY}

\* ----------------------------------------------------------------- plans
Style(kind) == [type |-> "style", kind |-> kind, items |-> <<>>]
Dict(items) == [type |-> "dict", kind |-> "none", items |-> items]
NotAPlan == [type |-> "other", kind |-> "none", items |-> <<>>]
Item(key, value) == [key |-> key, value |-> value]

\* A ParallelStyle either changes the module it is given and returns it, or
\* returns a new module.
StyleKinds == {"inplace", "copy"}
Values == {Style(k) : k \in StyleKinds} \cup {NotAPlan}

\* ------------------------------------------------------------- nn.Module
Kid(name, id) == [name |-> name, id |-> id]
Mod(kids, faulty) == [kids |-> kids, applied |-> 0, faulty |-> faulty]
Leaf == Mod(<<>>, {})

HasKid(h, m, name) == \E i \in 1..Len(h[m].kids) : h[m].kids[i].name = name
KidAt(h, m, name) ==
    h[m].kids[CHOOSE i \in 1..Len(h[m].kids) : h[m].kids[i].name = name].id
KidNames(h, m) == [i \in 1..Len(h[m].kids) |-> h[m].kids[i].name]

\* Module.get_submodule(target) for a target without dots: the module itself
\* for "", the child of that name, AttributeError ("absent") when there is
\* none, and any other exception ("fault") when the attribute's access raises.
get_submodule(h, m, target) ==
    IF target = EMPTY THEN [st |-> "ok", id |-> m]
    ELSE IF target \in h[m].faulty THEN [st |-> "fault", id |-> 0]
    ELSE IF HasKid(h, m, target) THEN [st |-> "ok", id |-> KidAt(h, m, target)]
    ELSE [st |-> "absent", id |-> 0]

\* Module.children(): the values of _modules in order, each object once.
\* The generator is consumed while the recursive calls of line 107 and 110
\* run; those calls store only under the child they are given or below it,
\* and a module is below itself only through the name "*", its last key, so
\* the values the generator yields are those of the dict when the loop began.
children(h, m) ==
    LET ks == h[m].kids
        first == {i \in 1..Len(ks) : \A j \in 1..(i - 1) : ks[j].id # ks[i].id}
        RECURSIVE from(_)
        from(i) == IF i > Len(ks) THEN <<>>
                   ELSE IF i \in first THEN <<ks[i].id>> \o from(i + 1)
                   ELSE from(i + 1)
    IN  from(1)

\* Module.register_module(name, module): _modules[name] = module.
register_module(h, m, name, new) ==
    IF HasKid(h, m, name)
    THEN [h EXCEPT ![m].kids =
            [i \in 1..Len(@) |-> IF @[i].name = name THEN Kid(name, new) ELSE @[i]]]
    ELSE [h EXCEPT ![m].kids = Append(@, Kid(name, new))]

\* ---------------------------------------------------------------- events
Ev(op, node, name, res) == [op |-> op, node |-> node, name |-> name, res |-> res]

\* The state a call works on: the heap, the process-wide RNG tracker, the
\* number of trackers constructed, the events so far, the exception raised.
St(h, t, n) == [heap |-> h, trk |-> t, installs |-> n, log |-> <<>>, err |-> "none"]
Raise(s, e) == [s EXCEPT !.err = e]
Note(s, e) == [s EXCEPT !.log = Append(@, e)]

\* ParallelStyle._apply(module, device_mesh)
apply_style(s, kind, m) ==
    IF kind = "inplace"
    THEN [s |-> Note([s EXCEPT !.heap[m].applied = @ + 1], Ev("apply", m, EMPTY, m)),
          ret |-> m]
    ELSE LET new == Len(s.heap) + 1
         IN  [s |-> Note([s EXCEPT !.heap =
                            Append(@, [s.heap[m] EXCEPT !.applied = @ + 1])],
                         Ev("apply", m, EMPTY, new)),
              ret |-> new]

\* _validate_tp_mesh_dim(device_mesh)
validate_tp_mesh_dim(s, dm) ==
    IF dm.ndim # 1 THEN Raise(s, "ValueError: mesh") ELSE s

is_rng_supported_mesh(dm) == dm.rng

NewTracker(n) == [kind |-> "tp", id |-> n, seeds |-> 1, flag |-> FALSE]

\* rng_bootstrap without the isinstance test of lines 76-78
rng_bootstrap_always(s, dm) ==
    IF is_rng_supported_mesh(dm)
    THEN [s EXCEPT !.trk = NewTracker(s.installs + 1), !.installs = @ + 1]
    ELSE s

\* lines 75-85: instantiate a TP RNG state tracker if it's not there
rng_bootstrap(s, dm) ==
    IF is_rng_supported_mesh(dm) /\ s.trk.kind # "tp"
    THEN [s EXCEPT !.trk = NewTracker(s.installs + 1), !.installs = @ + 1]
    ELSE s

\* prologue with the tracker set up before the mesh is validated
prologue_rng_first(s, dm) ==
    validate_tp_mesh_dim(rng_bootstrap(s, dm), dm)

\* lines 73-85, run by every invocation
prologue(s, dm) ==
    LET s1 == validate_tp_mesh_dim(s, dm)
    IN  IF s1.err # "none" THEN s1 ELSE rng_bootstrap(s1, dm)

RECURSIVE parallelize_module(_, _, _, _)

\* lines 104-110: the loop over parent_module.children()
RECURSIVE fan_out(_, _, _, _, _)
fan_out(s, subs, dm, leaf_path, parallelize_style) ==
    IF subs = <<>> \/ s.err # "none" THEN s
    ELSE fan_out(parallelize_module(s, Head(subs), dm,
                     IF leaf_path # EMPTY
                     THEN Dict(<<Item(leaf_path, parallelize_style)>>)
                     ELSE parallelize_style).s,
                 Tail(subs), dm, leaf_path, parallelize_style)

\* lines 98-126: the while loop.  leaf = 0 stands for None.
Walked(s, parent, leaf, atom, go) ==
    [s |-> s, parent |-> parent, leaf |-> leaf, atom |-> atom, go |-> go]

\* round without line 113, parent_module = leaf_module
round_stale_parent(s, dm, atom, rest, parent_module, leaf_module, parallelize_style) ==
    IF atom = STAR
    THEN LET s1 == fan_out(Note(s, Ev("children", parent_module, EMPTY, 0)),
                           children(s.heap, parent_module), dm,
                           join(rest), parallelize_style)
         IN  Walked(s1, parent_module, leaf_module, atom, s1.err = "none")
    ELSE LET g == get_submodule(s.heap, leaf_module, atom)
             s1 == Note(s, Ev("get", leaf_module, atom, g.id))
         IN  CASE g.st = "ok" -> Walked(s1, parent_module, g.id, atom, TRUE)
               [] g.st = "absent" -> Walked(s1, parent_module, 0, atom, FALSE)
               [] OTHER -> Walked(Raise(s1, "RuntimeError"), parent_module, 0, atom, FALSE)

\* round without the except AttributeError clause of lines 116-122
round_no_skip(s, dm, atom, rest, parent_module, leaf_module, parallelize_style) ==
    IF atom = STAR
    THEN LET s1 == fan_out(Note(s, Ev("children", parent_module, EMPTY, 0)),
                           children(s.heap, parent_module), dm,
                           join(rest), parallelize_style)
         IN  Walked(s1, parent_module, leaf_module, atom, s1.err = "none")
    ELSE LET g == get_submodule(s.heap, leaf_module, atom)
             s1 == Note(s, Ev("get", leaf_module, atom, g.id))
         IN  CASE g.st = "ok" -> Walked(s1, leaf_module, g.id, atom, TRUE)
               [] OTHER -> Walked(Raise(s1, "RuntimeError"), leaf_module, 0, atom, FALSE)

\* lines 99-126: one round of the while loop
round(s, dm, atom, rest, parent_module, leaf_module, parallelize_style) ==
    IF atom = STAR
    THEN LET s1 == fan_out(Note(s, Ev("children", parent_module, EMPTY, 0)),
                           children(s.heap, parent_module), dm,
                           join(rest), parallelize_style)
         IN  Walked(s1, parent_module, leaf_module, atom, s1.err = "none")
    ELSE LET g == get_submodule(s.heap, leaf_module, atom)
             s1 == Note(s, Ev("get", leaf_module, atom, g.id))
         IN  CASE g.st = "ok" -> Walked(s1, leaf_module, g.id, atom, TRUE)
               [] g.st = "absent" -> Walked(s1, leaf_module, 0, atom, FALSE)
               [] OTHER -> Walked(Raise(s1, "RuntimeError"), leaf_module, 0, atom, FALSE)

RECURSIVE walk(_, _, _, _)
walk(w, dm, path_splits, parallelize_style) ==
    IF path_splits = <<>> \/ ~w.go THEN w
    ELSE walk(round(w.s, dm, Head(path_splits), Tail(path_splits),
                    w.parent, w.leaf, parallelize_style),
              dm, Tail(path_splits), parallelize_style)

\* lines 91-140: one iteration of the loop over parallelize_plan.items()
iteration(s, module, dm, module_path, parallelize_style) ==
    LET path_splits == split(module_path)
    IN  IF Len(path_splits) = 0 THEN Raise(s, "ValueError: empty path")
        ELSE
          LET w == walk(Walked(s, module, module, EMPTY, TRUE), dm, path_splits,
                         parallelize_style)
          IN  IF w.s.err # "none" THEN w.s
              ELSE IF w.leaf = 0 THEN w.s
              ELSE IF ~(Len(w.atom) > 0) THEN Raise(w.s, "AssertionError")
              ELSE LET r == parallelize_module(w.s, w.leaf, dm, parallelize_style)
                   IN  IF r.s.err # "none" THEN r.s
                       ELSE Note([r.s EXCEPT !.heap =
                                    register_module(@, w.parent, w.atom, r.ret)],
                                 Ev("register", w.parent, w.atom, r.ret))

\* lines 90-141: the loop itself
RECURSIVE items_loop(_, _, _, _)
items_loop(s, module, dm, items) ==
    IF items = <<>> \/ s.err # "none" THEN s
    ELSE items_loop(iteration(s, module, dm, Head(items).key, Head(items).value),
                    module, dm, Tail(items))

\* dispatch returning the module it was given on line 88
dispatch_returns_module(s, module, dm, parallelize_plan) ==
    CASE parallelize_plan.type = "style" ->
           [s |-> apply_style(s, parallelize_plan.kind, module).s, ret |-> module]
      [] parallelize_plan.type = "dict" ->
           [s |-> items_loop(s, module, dm, parallelize_plan.items), ret |-> module]
      [] OTHER -> [s |-> Raise(s, "TypeError"), ret |-> 0]

\* lines 87-146: the dispatch on the plan's type
dispatch(s, module, dm, parallelize_plan) ==
    CASE parallelize_plan.type = "style" ->
           apply_style(s, parallelize_plan.kind, module)
      [] parallelize_plan.type = "dict" ->
           [s |-> items_loop(s, module, dm, parallelize_plan.items), ret |-> module]
      [] OTHER -> [s |-> Raise(s, "TypeError"), ret |-> 0]

parallelize_module(s, module, dm, parallelize_plan) ==
    LET s1 == prologue(s, dm)
    IN  IF s1.err # "none" THEN [s |-> s1, ret |-> 0]
        ELSE dispatch(s1, module, dm, parallelize_plan)

\* ----------------------------------------------------------- the caller
Root == 1

\* root{a{b{a}}}
TreeChain == <<Mod(<<Kid(NA, 2)>>, {}), Mod(<<Kid(NB, 3)>>, {}),
               Mod(<<Kid(NA, 4)>>, {}), Leaf>>
\* root{a{a, b}, b}
TreeFan == <<Mod(<<Kid(NA, 2), Kid(NB, 5)>>, {}),
             Mod(<<Kid(NA, 3), Kid(NB, 4)>>, {}), Leaf, Leaf, Leaf>>
\* root{a{a{b}, b{}}}
TreeLin == <<Mod(<<Kid(NA, 2)>>, {}), Mod(<<Kid(NA, 3), Kid(NB, 4)>>, {}),
             Mod(<<Kid(NB, 5)>>, {}), Leaf, Leaf>>
\* root{b{a, b}, a{b{a}}}
TreeMixed == <<Mod(<<Kid(NB, 2), Kid(NA, 5)>>, {}),
               Mod(<<Kid(NA, 3), Kid(NB, 4)>>, {}), Leaf, Leaf,
               Mod(<<Kid(NB, 6)>>, {}), Mod(<<Kid(NA, 7)>>, {}), Leaf>>
\* root{a{b}} whose attribute b raises on access
TreeFaulty == <<Mod(<<Kid(NA, 2)>>, {NB}), Mod(<<Kid(NB, 3)>>, {}), Leaf>>
\* root{}
TreeBare == <<Leaf>>

Trees == {TreeChain, TreeFan, TreeLin, TreeMixed, TreeFaulty, TreeBare}
SeqTrees == {TreeFaulty, TreeBare}

NoTracker == [kind |-> "none", id |-> 0, seeds |-> 0, flag |-> FALSE]
OtherTracker == [kind |-> "other", id |-> 0, seeds |-> 0, flag |-> FALSE]

Mesh(ndim, rng) == [ndim |-> ndim, rng |-> rng]
Meshes == {Mesh(1, TRUE), Mesh(2, TRUE)}
SeqMeshes == {Mesh(n, r) : n \in {1, 2}, r \in BOOLEAN}

TopPlans == {Style(k) : k \in StyleKinds} \cup {NotAPlan, Dict(<<>>)}

InitFrom(trees, trackers) ==
    /\ heap \in trees
    /\ tracker \in trackers
    /\ installs = 0
    /\ mesh = Mesh(1, TRUE)
    /\ pc = "idle"
    /\ plan = Dict(<<>>)
    /\ ncalls = 0
    /\ nentries = 0
    /\ err = "none"
    /\ ret = 0
    /\ log = <<>>
    /\ pre = heap
    /\ start = [heap |-> heap, tracker |-> tracker, installs |-> installs]

\* lines 71-89, and the rest of the call unless the plan is a dict with items
Enter(dm, p, maxCalls) ==
    /\ pc \in {"idle", "returned", "raised"}
    /\ ncalls < maxCalls
    /\ LET r == parallelize_module(St(heap, tracker, installs), Root, dm, p)
       IN  /\ heap' = r.s.heap
           /\ tracker' = r.s.trk
           /\ installs' = r.s.installs
           /\ err' = r.s.err
           /\ log' = <<r.s.log>>
           /\ pc' = IF r.s.err # "none" THEN "raised"
                    ELSE IF p.type = "dict" THEN "loop" ELSE "returned"
           /\ ret' = IF r.s.err # "none" \/ p.type = "dict" THEN 0 ELSE r.ret
    /\ mesh' = dm
    /\ plan' = p
    /\ ncalls' = ncalls + 1
    /\ pre' = heap
    /\ start' = [heap |-> heap, tracker |-> tracker, installs |-> installs]
    /\ UNCHANGED nentries

\* ProcessEntry undoing the call's changes to the tree when the item raises
ProcessEntry_rollback(key, value, maxEntries) ==
    /\ pc = "loop"
    /\ nentries < maxEntries
    /\ \A i \in 1..Len(plan.items) : plan.items[i].key # key
    /\ LET s == iteration(St(heap, tracker, installs), Root, mesh, key, value)
       IN  /\ heap' = IF s.err # "none" THEN start.heap ELSE s.heap
           /\ tracker' = s.trk
           /\ installs' = s.installs
           /\ err' = s.err
           /\ log' = Append(log, s.log)
           /\ pc' = IF s.err # "none" THEN "raised" ELSE "loop"
    /\ plan' = [plan EXCEPT !.items = Append(@, Item(key, value))]
    /\ nentries' = nentries + 1
    /\ pre' = heap
    /\ UNCHANGED <<mesh, ncalls, ret, start>>

\* lines 90-140: the next item of the dict
ProcessEntry(key, value, maxEntries) ==
    /\ pc = "loop"
    /\ nentries < maxEntries
    /\ \A i \in 1..Len(plan.items) : plan.items[i].key # key
    /\ LET s == iteration(St(heap, tracker, installs), Root, mesh, key, value)
       IN  /\ heap' = s.heap
           /\ tracker' = s.trk
           /\ installs' = s.installs
           /\ err' = s.err
           /\ log' = Append(log, s.log)
           /\ pc' = IF s.err # "none" THEN "raised" ELSE "loop"
    /\ plan' = [plan EXCEPT !.items = Append(@, Item(key, value))]
    /\ nentries' = nentries + 1
    /\ pre' = heap
    /\ UNCHANGED <<mesh, ncalls, ret, start>>

\* line 141: the dict has no more items
Return ==
    /\ pc = "loop"
    /\ pc' = "returned"
    /\ ret' = Root
    /\ UNCHANGED <<heap, tracker, installs, mesh, plan, ncalls, nentries,
                   err, log, pre, start>>

\* lines 82-84: between calls the user may set distribute_region_enabled
UserSetFlag(b) ==
    /\ pc \in {"returned", "raised"}
    /\ tracker.kind = "tp"
    /\ tracker.flag # b
    /\ tracker' = [tracker EXCEPT !.flag = b]
    /\ UNCHANGED <<heap, installs, mesh, pc, plan, ncalls, nentries,
                   err, ret, log, pre, start>>

\* One call with a plan of at most one item, over every path of up to
\* MaxKeyLen segments.
Init == InitFrom(Trees, {NoTracker})

Next ==
    \/ \E dm \in Meshes, p \in TopPlans : Enter(dm, p, 1)
    \/ \E key \in Paths(MaxKeyLen), value \in Values : ProcessEntry(key, value, 1)
    \/ Return

Spec == Init /\ [][Next]_vars

\* Several calls and several items, over the paths of one segment.
InitSeq == InitFrom(SeqTrees, {NoTracker, OtherTracker})

NextSeq ==
    \/ \E dm \in SeqMeshes, p \in TopPlans : Enter(dm, p, MaxCalls)
    \/ \E key \in Paths(1), value \in Values : ProcessEntry(key, value, MaxEntries)
    \/ Return
    \/ \E b \in BOOLEAN : UserSetFlag(b)

SpecSeq == InitSeq /\ [][NextSeq]_vars

\* ------------------------------------------------------------ properties
\* The last step was an item of a dict plan (an iteration of line 90).
ItemStep ==
    /\ plan.type = "dict"
    /\ Len(plan.items) > 0
    /\ Len(log) = Len(plan.items) + 1

LastItem == plan.items[Len(plan.items)]
LastLog == log[Len(log)]
IsApply(e) == e.op = "apply"
IsRegister(e) == e.op = "register"
Applies(l) == SelectSeq(l, IsApply)
Registers(l) == SelectSeq(l, IsRegister)

IsLiteral(seg) == seg # STAR /\ seg # EMPTY
AllLiteral(segs) == \A i \in 1..Len(segs) : IsLiteral(segs[i])
Front(segs) == SubSeq(segs, 1, Len(segs) - 1)
Last(segs) == segs[Len(segs)]

\* The module at a path of literal names below m in heap h, or 0.
RECURSIVE Resolve(_, _, _)
Resolve(h, m, segs) ==
    IF segs = <<>> THEN m
    ELSE LET g == get_submodule(h, m, Head(segs))
         IN  IF g.st = "ok" THEN Resolve(h, g.id, Tail(segs)) ELSE 0

\* In heap h1, r is what a style of this kind makes of module x of heap h0.
IsStyled(h0, h1, x, r, kind) ==
    IF kind = "inplace"
    THEN r = x /\ h1[x] = [h0[x] EXCEPT !.applied = @ + 1]
    ELSE /\ r = Len(h0) + 1
         /\ Len(h1) = Len(h0) + 1
         /\ h1[r] = [h0[x] EXCEPT !.applied = @ + 1]
         /\ h1[x] = h0[x]

\* Module m of h1 is module m of h0 but for the child stored under name.
SameButKid(h0, h1, m, name, new) ==
    /\ h1[m].applied = h0[m].applied
    /\ h1[m].faulty = h0[m].faulty
    /\ Len(h1[m].kids) = Len(h0[m].kids)
    /\ \A i \in 1..Len(h0[m].kids) :
         /\ h1[m].kids[i].name = h0[m].kids[i].name
         /\ h1[m].kids[i].id = IF h0[m].kids[i].name = name THEN new
                               ELSE h0[m].kids[i].id

Untouched(h0, h1, ms) ==
    /\ Len(h1) >= Len(h0)
    /\ \A m \in (1..Len(h0)) \ ms : h1[m] = h0[m]

\* C3 --------------------------------------------------------------------
C3Case ==
    /\ ItemStep
    /\ LastItem.value.type = "style"
    /\ AllLiteral(split(LastItem.key))
    /\ Resolve(pre, Root, split(LastItem.key)) # 0

\* C3: a plan item whose key is a path of literal names that exists in the
\* tree applies the style exactly once, to the module X at that path, stores
\* the result under the last name in X's parent, changes nothing else, raises
\* nothing, and the call returns the root it was given.
C3LiteralExactMatch ==
    C3Case =>
      LET segs == split(LastItem.key)
          X == Resolve(pre, Root, segs)
          P == Resolve(pre, Root, Front(segs))
          ap == Applies(LastLog)
          rg == Registers(LastLog)
      IN  /\ err = "none"
          /\ pc \in {"loop", "returned"}
          /\ pc = "returned" => ret = Root
          /\ Len(ap) = 1
          /\ ap[1].node = X
          /\ rg = <<Ev("register", P, Last(segs), ap[1].res)>>
          /\ IsStyled(pre, heap, X, ap[1].res, LastItem.value.kind)
          /\ SameButKid(pre, heap, P, Last(segs), ap[1].res)
          /\ Untouched(pre, heap, {P, X})
          /\ Len(heap) <= Len(pre) + 1

C3Witness ==
    /\ C3Case
    /\ Len(split(LastItem.key)) = 3
    /\ LastItem.value.kind = "copy"
    /\ pc = "returned"
    /\ KidAt(heap, 3, NA) = 5

\* C4 --------------------------------------------------------------------
\* The literal names segs[1..i-1] resolve and the module reached has no
\* child named segs[i].
MissesAt(h, segs, i) ==
    /\ AllLiteral(SubSeq(segs, 1, i))
    /\ Resolve(h, Root, SubSeq(segs, 1, i - 1)) # 0
    /\ get_submodule(h, Resolve(h, Root, SubSeq(segs, 1, i - 1)), segs[i]).st = "absent"

C4Case ==
    /\ ItemStep
    /\ \E i \in 1..Len(split(LastItem.key)) : MissesAt(pre, split(LastItem.key), i)

\* C4: when a literal name of a key, reached by literal names, is no child of
\* the module reached, the item raises nothing, applies no style, leaves the
\* tree as it was, and the loop goes on to the next item.
C4MissingLiteralIsSilent ==
    C4Case =>
      /\ err = "none"
      /\ pc \in {"loop", "returned"}
      /\ pc = "returned" => ret = Root
      /\ heap = pre
      /\ Applies(LastLog) = <<>>
      /\ Registers(LastLog) = <<>>

C4Witness ==
    /\ C4Case
    /\ Len(split(LastItem.key)) = 3
    /\ MissesAt(pre, split(LastItem.key), 3)
    /\ LastItem.value.type = "style"
    /\ pc = "returned"

\* C5 --------------------------------------------------------------------
\* C5: a dict plan with the key "" raises the ValueError of lines 94-96,
\* before any walk, with the tree unchanged and no style applied.
C5EmptyKeyRejected ==
    (ItemStep /\ LastItem.key = EMPTY) =>
      /\ err = "ValueError: empty path"
      /\ pc = "raised"
      /\ heap = pre
      /\ LastLog = <<>>

\* C8 --------------------------------------------------------------------
C8Case == ncalls > 0 /\ mesh.ndim # 1

\* C8: a call on a mesh that is not 1-D raises the mesh error with the tree
\* and the RNG tracker as they were and no style applied, whatever the plan.
C8Non1DMeshRejectedFirst ==
    C8Case =>
      /\ pc = "raised"
      /\ err = "ValueError: mesh"
      /\ heap = start.heap
      /\ tracker = start.tracker
      /\ installs = start.installs
      /\ log = << <<>> >>
      /\ ret = 0

C8Witness ==
    /\ C8Case
    /\ plan.type = "style"
    /\ tracker.kind = "none"
    /\ is_rng_supported_mesh(mesh)
    /\ pc = "raised"

\* C9 --------------------------------------------------------------------
C9Case == ncalls > 0 /\ mesh.ndim = 1 /\ plan.type = "style"

\* C9: on a 1-D mesh a plan that is one style returns that style's result on
\* the root, applies it once, looks up and enumerates no child, and stores
\* the result under no parent.
C9SingleStylePlan ==
    C9Case =>
      /\ pc = "returned"
      /\ err = "none"
      /\ log = << <<Ev("apply", Root, EMPTY, ret)>> >>
      /\ IsStyled(start.heap, heap, Root, ret, plan.kind)
      /\ Untouched(start.heap, heap, {Root})
      /\ Len(heap) <= Len(start.heap) + 1
      /\ heap[Root].kids = start.heap[Root].kids

C9Witness ==
    /\ C9Case
    /\ plan.kind = "copy"
    /\ ret = Len(start.heap) + 1
    /\ Len(heap[Root].kids) = 2

\* C1 --------------------------------------------------------------------
\* The children of module m in heap h, in declared order.
KidIds(h, m) == [i \in 1..Len(h[m].kids) |-> h[m].kids[i].id]
NamesKept(h0, h1) ==
    \A m \in 1..Len(h0) : KidNames(h1, m) = KidNames(h0, m)

C1Case ==
    /\ ItemStep
    /\ LastItem.value.type = "style"
    /\ Len(split(LastItem.key)) >= 2
    /\ Last(split(LastItem.key)) = STAR
    /\ AllLiteral(Front(split(LastItem.key)))
    /\ Resolve(pre, Root, Front(split(LastItem.key))) # 0

\* C1: for a key "<prefix>.*" whose literal prefix resolves to N, the style is
\* applied to the children of N, in declared order and to nothing else, each
\* child is replaced under its own name by the result, and nothing else in
\* the tree changes: no other module, no child name added or removed.
C1WildcardLast ==
    C1Case =>
      LET N == Resolve(pre, Root, Front(split(LastItem.key)))
          ap == Applies(LastLog)
      IN  /\ err = "none"
          /\ [i \in 1..Len(ap) |-> ap[i].node] = KidIds(pre, N)
          /\ NamesKept(pre, heap)
          /\ KidIds(heap, N) = [i \in 1..Len(ap) |-> ap[i].res]
          /\ \A i \in 1..Len(ap) :
               /\ heap[ap[i].res].applied = pre[ap[i].node].applied + 1
               /\ heap[ap[i].res].kids = pre[ap[i].node].kids
          /\ Untouched(pre, heap, {N} \cup {pre[N].kids[i].id : i \in 1..Len(pre[N].kids)})
          /\ heap[N].applied = pre[N].applied

\* C2 --------------------------------------------------------------------
C2Case ==
    /\ ItemStep
    /\ LastItem.value.type = "style"
    /\ Len(split(LastItem.key)) >= 3
    /\ split(LastItem.key)[Len(split(LastItem.key)) - 1] = STAR
    /\ IsLiteral(Last(split(LastItem.key)))
    /\ AllLiteral(Front(Front(split(LastItem.key))))
    /\ Resolve(pre, Root, Front(Front(split(LastItem.key)))) # 0

\* C2: for a key "<p>.*.<lin>" whose literal prefix resolves to P, the style
\* is applied exactly to the modules P.<c>.<lin> of the children c of P that
\* have a child <lin>, each is replaced by its result, the other children of
\* P are skipped, and no other module is transformed or replaced.
C2WildcardThenLiteral ==
    C2Case =>
      LET segs == split(LastItem.key)
          lin == Last(segs)
          P == Resolve(pre, Root, Front(Front(segs)))
          cs == {c \in {pre[P].kids[i].id : i \in 1..Len(pre[P].kids)} :
                    get_submodule(pre, c, lin).st = "ok"}
          ap == Applies(LastLog)
          rg == Registers(LastLog)
      IN  /\ err = "none"
          /\ Len(ap) = Cardinality(cs)
          /\ {ap[i].node : i \in 1..Len(ap)} = {KidAt(pre, c, lin) : c \in cs}
          /\ {<<rg[i].node, rg[i].name>> : i \in 1..Len(rg)} = {<<c, lin>> : c \in cs}
          /\ \A c \in cs : \E i \in 1..Len(ap) :
               /\ ap[i].node = KidAt(pre, c, lin)
               /\ KidAt(heap, c, lin) = ap[i].res
          /\ NamesKept(pre, heap)
          /\ Untouched(pre, heap, cs \cup {KidAt(pre, c, lin) : c \in cs})

\* C6 --------------------------------------------------------------------
\* C6: no step of any call adds a child name to a module or removes one.
C6ReplaceOnly == NamesKept(pre, heap)

\* C7 --------------------------------------------------------------------
\* A step of parallelize_module, as opposed to the user setting the flag.
CallStep == ncalls' # ncalls \/ nentries' # nentries \/ pc' # pc

\* C7: a TensorParallelRNGTracker is constructed and seeded at most once;
\* once random._rng_tracker is one, no step of any call replaces it, seeds it
\* again or changes its distribute_region_enabled, and right after the one
\* construction the flag is False.
C7IdempotentRngBootstrap ==
    /\ [](/\ installs <= 1
          /\ tracker.kind = "tp" => (tracker.id = 1 /\ tracker.seeds = 1))
    /\ [][/\ (tracker.kind = "tp" /\ CallStep) => tracker' = tracker
          /\ (tracker.kind # "tp" /\ tracker'.kind = "tp") =>
               (/\ tracker'.flag = FALSE
                /\ tracker'.seeds = 1
                /\ installs' = 1
                /\ is_rng_supported_mesh(mesh'))]_vars

C7Witness ==
    /\ ncalls = 2
    /\ pc = "returned"
    /\ is_rng_supported_mesh(mesh)
    /\ start.tracker.kind = "tp"
    /\ start.tracker.flag = TRUE
    /\ tracker = start.tracker
    /\ installs = 1
    /\ ItemStep
    /\ LastItem.key = STAR
    /\ Applies(LastLog) # <<>>

\* C10 -------------------------------------------------------------------
\* The register events of the items of the current call, in order.
RECURSIVE RegistersFrom(_)
RegistersFrom(j) ==
    IF j > Len(log) THEN <<>> ELSE Registers(log[j]) \o RegistersFrom(j + 1)

\* Every child stored by an item of the current call is still stored, unless
\* a later register event of the call stored another one under that name.
ReplacementsPresent ==
    LET rg == RegistersFrom(2)
    IN  \A i \in 1..Len(rg) :
          \/ \E j \in (i + 1)..Len(rg) :
               rg[j].node = rg[i].node /\ rg[j].name = rg[i].name
          \/ /\ rg[i].res \in 1..Len(heap)
             /\ HasKid(heap, rg[i].node, rg[i].name)
             /\ KidAt(heap, rg[i].node, rg[i].name) = rg[i].res

C10Case == pc = "raised" /\ ItemStep

\* C10: when item k of a dict plan raises, the exception reaches the caller
\* at once, what the items before k stored in the tree is still there, and no
\* later item is processed.
C10NoRollback ==
    /\ [](C10Case => (err # "none" /\ ret = 0 /\ ReplacementsPresent))
    /\ [][/\ (pc = "loop" /\ err' # "none") => pc' = "raised"
          /\ (pc = "raised" /\ ncalls' = ncalls) =>
               UNCHANGED <<heap, plan, log, err, nentries>>]_vars

C10Witness ==
    /\ C10Case
    /\ Len(plan.items) = 2
    /\ err = "RuntimeError"
    /\ Registers(log[2]) # <<>>
    /\ Registers(log[2])[1].res > Len(start.heap)
    /\ KidAt(heap, Root, NA) = Registers(log[2])[1].res

====
